---------------------------- MODULE Spec2Model ----------------------------
(***************************************************************************)
(* Model of the sendly-go service facades: WebhooksService, VerifyService, *)
(* SessionsService and TemplatesService.  Every method is one action: it   *)
(* validates its arguments, issues at most one call to the request         *)
(* executor (client.request / client.doRequest) and maps the decoded       *)
(* payload to its return values.                                           *)
(*                                                                         *)
(* Conventions.                                                            *)
(*   - Go strings are TLA+ strings; "" is the empty string.                *)
(*   - A nilable Go value (pointer, slice, map, interface) is a sequence   *)
(*     of length at most one: <<>> is nil and <<v>> is a non-nil value v.  *)
(*   - A Go map value is a TLA+ function; the empty map is the function    *)
(*     with the empty domain.                                              *)
(*   - An error is a string; NoError is the nil error.                     *)
(*   - The executor is an external collaborator: each action draws its     *)
(*     outcome (an error, or a decoded payload) nondeterministically.      *)
(*   - A request struct passed by pointer is not nil; no method            *)
(*     dereferences it, it is only handed to the executor, whose body is   *)
(*     recorded as the JSON object encoding/json writes for the struct.    *)
(***************************************************************************)
EXTENDS Integers, Sequences, FiniteSets, TLC

VARIABLES
    op,      \* the method that ran last ("none" after construction)
    args,    \* its arguments
    calls,   \* the executor invocations it made: [method, path, body]
    exec,    \* <<>> if the executor was not invoked, else <<its outcome>>
    result,  \* the returned result: <<>> is nil, <<v>> is a value
    err      \* the returned error, NoError for nil

vars == <<op, args, calls, exec, result, err>>

\* ---------------------------------------------------------------- bounds
\* Longest events list of a CreateWebhookRequest.
MaxEvents == 2
\* Largest Limit of a VerificationListOptions (the smallest is -1).
MaxLimit == 2
\* Longest list the server returns (webhooks, deliveries, event types).
MaxList == 2

SeqsUpTo(S, n) == UNION {[1..k -> S] : k \in 0..n}

\* ------------------------------------------------------- Go library pieces
\* The nil error.
NoError == "<nil>"

\* A prefix test that accepts the prefix anywhere in s (strings.Contains).
HasPrefix_Contains(s, prefix) ==
    \E i \in 1..(Len(s) - Len(prefix) + 1) :
        SubSeq(s, i, i + Len(prefix) - 1) = prefix

\* strings.HasPrefix(s, prefix)
HasPrefix(s, prefix) ==
    /\ Len(s) >= Len(prefix)
    /\ SubSeq(s, 1, Len(prefix)) = prefix

\* The errors the executor may return (transport failure, HTTP status).
ExecErrors == {"transport: connection refused", "http 404: not found"}

\* The outcomes of one executor invocation that decodes into a value drawn
\* from payloads: an error and nothing decoded, or no error and a payload.
ExecOutcomes(payloads) ==
    {[err |-> e, payload |-> <<>>] : e \in ExecErrors}
        \cup {[err |-> NoError, payload |-> <<p>>] : p \in payloads}

\* The outcomes of an invocation with a nil response target.
ExecNoBody ==
    {[err |-> e, payload |-> <<>>] : e \in ExecErrors \cup {NoError}}

\* ------------------------------------------------------------ wire payloads
WebhookModeAll == "all"

Secrets == {"whsec_old", "whsec_new"}

\* webhookAPIResponse values the executor may decode.
WebhookPayloads ==
    {[ID |-> "whk_1", URL |-> "https://a.io", Events |-> <<"sms.delivered">>,
      Description |-> d, Mode |-> m, IsActive |-> TRUE, FailureCount |-> 3,
      LastFailureAt |-> <<"t1">>, CircuitState |-> "closed",
      CircuitOpenedAt |-> <<>>, APIVersion |-> "v1",
      Metadata |-> <<[k |-> "v"]>>, CreatedAt |-> "t0", UpdatedAt |-> "t2",
      TotalDeliveries |-> 7, SuccessfulDeliveries |-> 4, SuccessRate |-> 57,
      LastDeliveryAt |-> <<"t3">>, Secret |-> s] :
        d \in {<<>>, <<"prod">>},
        m \in {"", "all", "selected"},
        s \in {""} \cup Secrets}

\* The webhooks of the responses to Create, Update and RotateSecret.
WrittenWebhooks == {w \in WebhookPayloads : w.Description = <<>>}

\* The elements of the lists the server returns for List.
ListedWebhooks == {w \in WrittenWebhooks : w.Secret = ""}

\* webhookDeliveryAPIResponse values the executor may decode.
DeliveryPayloads ==
    {[ID |-> i, WebhookID |-> "whk_1", EventID |-> "evt_1",
      EventType |-> "sms.delivered", AttemptNumber |-> 1, MaxAttempts |-> 5,
      Status |-> st, ResponseStatusCode |-> <<500>>, ResponseTimeMs |-> <<12>>,
      ErrorMessage |-> <<"boom">>, ErrorCode |-> <<>>, NextRetryAt |-> <<"t9">>,
      CreatedAt |-> "t0", DeliveredAt |-> <<>>] :
        i \in {"del_1", "del_2"}, st \in {"failed", "success"}}

\* ------------------------------------------------------------- transforms
\* transformWebhook without the default: an empty mode stays empty.
transformWebhook_NoDefault(api) ==
    [ID |-> api.ID,
     URL |-> api.URL,
     Events |-> api.Events,
     Description |-> api.Description,
     Mode |-> api.Mode,
     IsActive |-> api.IsActive,
     FailureCount |-> api.FailureCount,
     LastFailureAt |-> api.LastFailureAt,
     CircuitState |-> api.CircuitState,
     CircuitOpenedAt |-> api.CircuitOpenedAt,
     APIVersion |-> api.APIVersion,
     Metadata |-> api.Metadata,
     CreatedAt |-> api.CreatedAt,
     UpdatedAt |-> api.UpdatedAt,
     TotalDeliveries |-> api.TotalDeliveries,
     SuccessfulDeliveries |-> api.SuccessfulDeliveries,
     SuccessRate |-> api.SuccessRate,
     LastDeliveryAt |-> api.LastDeliveryAt]

\* transformWebhook(api)
transformWebhook(api) ==
    LET mode == IF api.Mode = "" THEN WebhookModeAll ELSE api.Mode
    IN  [ID |-> api.ID,
         URL |-> api.URL,
         Events |-> api.Events,
         Description |-> api.Description,
         Mode |-> mode,
         IsActive |-> api.IsActive,
         FailureCount |-> api.FailureCount,
         LastFailureAt |-> api.LastFailureAt,
         CircuitState |-> api.CircuitState,
         CircuitOpenedAt |-> api.CircuitOpenedAt,
         APIVersion |-> api.APIVersion,
         Metadata |-> api.Metadata,
         CreatedAt |-> api.CreatedAt,
         UpdatedAt |-> api.UpdatedAt,
         TotalDeliveries |-> api.TotalDeliveries,
         SuccessfulDeliveries |-> api.SuccessfulDeliveries,
         SuccessRate |-> api.SuccessRate,
         LastDeliveryAt |-> api.LastDeliveryAt]

\* transformDelivery(api)
transformDelivery(api) ==
    [ID |-> api.ID,
     WebhookID |-> api.WebhookID,
     EventID |-> api.EventID,
     EventType |-> api.EventType,
     AttemptNumber |-> api.AttemptNumber,
     MaxAttempts |-> api.MaxAttempts,
     Status |-> api.Status,
     ResponseStatusCode |-> api.ResponseStatusCode,
     ResponseTimeMs |-> api.ResponseTimeMs,
     ErrorMessage |-> api.ErrorMessage,
     ErrorCode |-> api.ErrorCode,
     NextRetryAt |-> api.NextRetryAt,
     CreatedAt |-> api.CreatedAt,
     DeliveredAt |-> api.DeliveredAt]

\* ------------------------------------------------------------------ inputs
\* Webhook ids a caller may pass.
WebhookIDs == {"", "whk", "whk_", "whk_1", "del_1", "xwhk_1", "WHK_1"}

\* Delivery ids a caller may pass.
DeliveryIDs == {"", "del", "del_", "del_1", "whk_1", "xdel_1"}

\* URLs a caller may pass.
URLs == {"", "https:/", "https://", "https://a.io", "http://a.io",
         "HTTPS://a.io", "xhttps://a.io"}

EventTypes == {"sms.delivered", "sms.failed"}

\* CreateWebhookRequest values (the fields Create reads).
CreateWebhookRequests ==
    [URL : URLs, Events : SeqsUpTo(EventTypes, MaxEvents)]

\* UpdateWebhookRequest values (the field Update reads): URL is a *string.
UpdateWebhookRequests ==
    [URL : {<<>>} \cup {<<u>> : u \in URLs}]

\* ------------------------------------------------- net/url and strconv
\* The escape of one byte by url.QueryEscape: a space becomes "+", a
\* reserved byte its %XX form, an unreserved byte (a letter, a digit,
\* "-", "_", ".", "~") itself.  The bytes listed are the reserved bytes of
\* the inputs below; every other byte of the inputs is unreserved.
EscapeByte(c) ==
    CASE c = " " -> "+"
      [] c = "&" -> "%26"
      [] c = "=" -> "%3D"
      [] c = "?" -> "%3F"
      [] c = "/" -> "%2F"
      [] c = "+" -> "%2B"
      [] c = "%" -> "%25"
      [] OTHER -> c

\* url.QueryEscape(s)
RECURSIVE QueryEscape(_)
QueryEscape(s) ==
    IF Len(s) = 0
    THEN ""
    ELSE EscapeByte(SubSeq(s, 1, 1)) \o QueryEscape(SubSeq(s, 2, Len(s)))

\* strconv.Itoa(n)
Itoa(n) == ToString(n)

\* url.Values.Encode() of the values List sets: keys in sorted order
\* ("limit" before "status"), each as key=value, joined by "&".  params
\* is a function from the keys that were Set to their values.
ValuesEncode(params) ==
    LET pair(k) == QueryEscape(k) \o "=" \o QueryEscape(params[k])
    IN  IF "limit" \in DOMAIN params /\ "status" \in DOMAIN params
        THEN pair("limit") \o "&" \o pair("status")
        ELSE IF "limit" \in DOMAIN params THEN pair("limit")
        ELSE IF "status" \in DOMAIN params THEN pair("status")
        ELSE ""

\* ------------------------------------------------- verify.go: JSON bodies
\* The JSON object encoding/json writes for each request struct, as a
\* function from the keys written to their values: a field tagged omitempty
\* is left out when it holds its zero value.

\* SendVerificationRequest
EncodeSendVerificationRequest(req) ==
    LET keys == {"to"}
            \cup (IF req.TemplateID # "" THEN {"template_id"} ELSE {})
            \cup (IF req.ProfileID # "" THEN {"profile_id"} ELSE {})
            \cup (IF req.AppName # "" THEN {"app_name"} ELSE {})
            \cup (IF req.TimeoutSecs # 0 THEN {"timeout_secs"} ELSE {})
            \cup (IF req.CodeLength # 0 THEN {"code_length"} ELSE {})
    IN  [k \in keys |->
            CASE k = "to" -> req.To
              [] k = "template_id" -> req.TemplateID
              [] k = "profile_id" -> req.ProfileID
              [] k = "app_name" -> req.AppName
              [] k = "timeout_secs" -> req.TimeoutSecs
              [] k = "code_length" -> req.CodeLength]

\* CheckVerificationRequest
EncodeCheckVerificationRequest(req) == [code |-> req.Code]

\* CreateSessionRequest
EncodeCreateSessionRequest(req) ==
    LET keys == {"success_url"}
            \cup (IF req.CancelURL # "" THEN {"cancel_url"} ELSE {})
            \cup (IF req.BrandName # "" THEN {"brand_name"} ELSE {})
            \cup (IF req.BrandColor # "" THEN {"brand_color"} ELSE {})
            \cup (IF req.Metadata # <<>> /\ DOMAIN req.Metadata[1] # {}
                  THEN {"metadata"} ELSE {})
    IN  [k \in keys |->
            CASE k = "success_url" -> req.SuccessURL
              [] k = "cancel_url" -> req.CancelURL
              [] k = "brand_name" -> req.BrandName
              [] k = "brand_color" -> req.BrandColor
              [] k = "metadata" -> req.Metadata[1]]

\* ValidateSessionRequest
EncodeValidateSessionRequest(req) == [token |-> req.Token]

\* --------------------------------------------------- verify.go: inputs
VerificationIDs == {"", "ver_1"}

SendVerificationRequests ==
    [To : {"+15550100"}, TemplateID : {"", "tpl_1"}, ProfileID : {""},
     AppName : {""}, TimeoutSecs : {0, 60}, CodeLength : {0}]

CheckVerificationRequests == [Code : {"", "123456"}]

\* Limit and Status values of a VerificationListOptions.
ListStatuses == {"", "pending", "a b", "x&y=z"}

VerificationListOptionsSet ==
    {<<>>} \cup {<<[Limit |-> l, Status |-> st]>> :
                    l \in -1..MaxLimit, st \in ListStatuses}

CreateSessionRequests ==
    [SuccessURL : {"", "https://a.io/ok"}, CancelURL : {"", "https://a.io/no"},
     BrandName : {""}, BrandColor : {""},
     Metadata : {<<>>, <<[user |-> "u1"]>>}]

ValidateSessionRequests == [Token : {"", "tok_1"}]

\* ------------------------------------------------- verify.go: payloads
SendVerificationResponses ==
    [ID : {"ver_1"}, Status : {"pending"}, Phone : {"+15550100"},
     ExpiresAt : {"t4"}, Sandbox : BOOLEAN, SandboxCode : {"", "123456"},
     Message : {""}]

CheckVerificationResponses ==
    [ID : {"ver_1"}, Status : {"verified", "pending"}, Phone : {"+15550100"},
     VerifiedAt : {"", "t6"}, RemainingAttempts : {0, 2}]

Verifications ==
    [ID : {"ver_1"}, Status : {"verified", "pending"}, Phone : {"+15550100"},
     DeliveryStatus : {"sent"}, Attempts : {1}, MaxAttempts : {3},
     ExpiresAt : {"t4"}, VerifiedAt : {""}, CreatedAt : {"t0"},
     Sandbox : {FALSE}, AppName : {""}, TemplateID : {""}, ProfileID : {""}]

VerificationListResponses ==
    [Verifications : {<<>>} \cup {<<<<v>>>> : v \in Verifications}
                         \cup {<<<<>>>>},
     Pagination : [Limit : {10}, HasMore : BOOLEAN]]

VerifySessions ==
    [ID : {"ses_1"}, URL : {"https://verify.example/ses_1"},
     Status : {"pending", "verified"}, SuccessURL : {"https://a.io/ok"},
     CancelURL : {""}, BrandName : {""}, BrandColor : {""},
     Phone : {"", "+15550100"}, VerificationID : {""}, Token : {""},
     Metadata : {<<>>}, ExpiresAt : {"t4"}, CreatedAt : {"t0"}]

ValidateSessionResponses ==
    [Valid : BOOLEAN, SessionID : {"", "ses_1"}, Phone : {"", "+15550100"},
     VerifiedAt : {"", "t6"}, Metadata : {<<>>, <<[user |-> "u1"]>>}]

\* --------------------------------------------------------- initial state
Init ==
    /\ op = "none"
    /\ args = <<>>
    /\ calls = <<>>
    /\ exec = <<>>
    /\ result = <<>>
    /\ err = NoError

\* --------------------------------------------------------- WebhooksService
\* Create without the check of the events list.
WebhooksCreate_NoEventsCheck ==
    \E req \in CreateWebhookRequests, e \in ExecOutcomes(WrittenWebhooks) :
        /\ op' = "Webhooks.Create"
        /\ args' = [req |-> req]
        /\ IF req.URL = "" \/ ~HasPrefix(req.URL, "https://")
           THEN /\ calls' = <<>> /\ exec' = <<>>
                /\ result' = <<>> /\ err' = "webhook URL must be HTTPS"
           ELSE /\ calls' = <<[method |-> "POST", path |-> "/webhooks",
                               body |-> <<req>>]>>
                /\ exec' = <<e>>
                /\ IF e.err # NoError
                   THEN result' = <<>> /\ err' = e.err
                   ELSE /\ result' =
                             <<[Webhook |-> transformWebhook(e.payload[1]),
                                Secret |-> e.payload[1].Secret]>>
                        /\ err' = NoError

\* func (s *WebhooksService) Create(ctx, req)
WebhooksCreate ==
    \E req \in CreateWebhookRequests, e \in ExecOutcomes(WrittenWebhooks) :
        /\ op' = "Webhooks.Create"
        /\ args' = [req |-> req]
        /\ IF req.URL = "" \/ ~HasPrefix(req.URL, "https://")
           THEN /\ calls' = <<>> /\ exec' = <<>>
                /\ result' = <<>> /\ err' = "webhook URL must be HTTPS"
           ELSE IF Len(req.Events) = 0
           THEN /\ calls' = <<>> /\ exec' = <<>>
                /\ result' = <<>>
                /\ err' = "at least one event type is required"
           ELSE /\ calls' = <<[method |-> "POST", path |-> "/webhooks",
                               body |-> <<req>>]>>
                /\ exec' = <<e>>
                /\ IF e.err # NoError
                   THEN result' = <<>> /\ err' = e.err
                   ELSE /\ result' =
                             <<[Webhook |-> transformWebhook(e.payload[1]),
                                Secret |-> e.payload[1].Secret]>>
                        /\ err' = NoError

\* List that fills the returned slice from its end: the server's order
\* comes back reversed.
WebhooksList_Reversed ==
    \E e \in ExecOutcomes(SeqsUpTo(ListedWebhooks, MaxList)) :
        /\ op' = "Webhooks.List"
        /\ args' = <<>>
        /\ calls' = <<[method |-> "GET", path |-> "/webhooks", body |-> <<>>]>>
        /\ exec' = <<e>>
        /\ IF e.err # NoError
           THEN result' = <<>> /\ err' = e.err
           ELSE /\ result' =
                     <<[i \in 1..Len(e.payload[1]) |->
                           transformWebhook(
                               e.payload[1][Len(e.payload[1]) + 1 - i])]>>
                /\ err' = NoError

\* func (s *WebhooksService) List(ctx)
WebhooksList ==
    \E e \in ExecOutcomes(SeqsUpTo(ListedWebhooks, MaxList)) :
        /\ op' = "Webhooks.List"
        /\ args' = <<>>
        /\ calls' = <<[method |-> "GET", path |-> "/webhooks", body |-> <<>>]>>
        /\ exec' = <<e>>
        /\ IF e.err # NoError
           THEN result' = <<>> /\ err' = e.err
           ELSE /\ result' = <<[i \in 1..Len(e.payload[1]) |->
                                   transformWebhook(e.payload[1][i])]>>
                /\ err' = NoError

\* Get that wraps the executor's error in a message of its own.
WebhooksGet_WrapsError ==
    \E webhookID \in WebhookIDs, e \in ExecOutcomes(WebhookPayloads) :
        /\ op' = "Webhooks.Get"
        /\ args' = [webhookID |-> webhookID]
        /\ IF webhookID = "" \/ ~HasPrefix(webhookID, "whk_")
           THEN /\ calls' = <<>> /\ exec' = <<>>
                /\ result' = <<>> /\ err' = "invalid webhook ID format"
           ELSE /\ calls' = <<[method |-> "GET",
                               path |-> "/webhooks/" \o webhookID,
                               body |-> <<>>]>>
                /\ exec' = <<e>>
                /\ IF e.err # NoError
                   THEN result' = <<>> /\ err' = "get webhook: " \o e.err
                   ELSE /\ result' = <<transformWebhook(e.payload[1])>>
                        /\ err' = NoError

\* func (s *WebhooksService) Get(ctx, webhookID)
WebhooksGet ==
    \E webhookID \in WebhookIDs, e \in ExecOutcomes(WebhookPayloads) :
        /\ op' = "Webhooks.Get"
        /\ args' = [webhookID |-> webhookID]
        /\ IF webhookID = "" \/ ~HasPrefix(webhookID, "whk_")
           THEN /\ calls' = <<>> /\ exec' = <<>>
                /\ result' = <<>> /\ err' = "invalid webhook ID format"
           ELSE /\ calls' = <<[method |-> "GET",
                               path |-> "/webhooks/" \o webhookID,
                               body |-> <<>>]>>
                /\ exec' = <<e>>
                /\ IF e.err # NoError
                   THEN result' = <<>> /\ err' = e.err
                   ELSE /\ result' = <<transformWebhook(e.payload[1])>>
                        /\ err' = NoError

\* Update with Create's URL check: a request without a url is refused.
WebhooksUpdate_UrlRequired ==
    \E webhookID \in WebhookIDs, req \in UpdateWebhookRequests,
       e \in ExecOutcomes(WrittenWebhooks) :
        /\ op' = "Webhooks.Update"
        /\ args' = [webhookID |-> webhookID, req |-> req]
        /\ IF webhookID = "" \/ ~HasPrefix(webhookID, "whk_")
           THEN /\ calls' = <<>> /\ exec' = <<>>
                /\ result' = <<>> /\ err' = "invalid webhook ID format"
           ELSE IF req.URL = <<>> \/ ~HasPrefix(req.URL[1], "https://")
           THEN /\ calls' = <<>> /\ exec' = <<>>
                /\ result' = <<>> /\ err' = "webhook URL must be HTTPS"
           ELSE /\ calls' = <<[method |-> "PATCH",
                               path |-> "/webhooks/" \o webhookID,
                               body |-> <<req>>]>>
                /\ exec' = <<e>>
                /\ IF e.err # NoError
                   THEN result' = <<>> /\ err' = e.err
                   ELSE /\ result' = <<transformWebhook(e.payload[1])>>
                        /\ err' = NoError

\* func (s *WebhooksService) Update(ctx, webhookID, req)
WebhooksUpdate ==
    \E webhookID \in WebhookIDs, req \in UpdateWebhookRequests,
       e \in ExecOutcomes(WrittenWebhooks) :
        /\ op' = "Webhooks.Update"
        /\ args' = [webhookID |-> webhookID, req |-> req]
        /\ IF webhookID = "" \/ ~HasPrefix(webhookID, "whk_")
           THEN /\ calls' = <<>> /\ exec' = <<>>
                /\ result' = <<>> /\ err' = "invalid webhook ID format"
           ELSE IF req.URL # <<>> /\ ~HasPrefix(req.URL[1], "https://")
           THEN /\ calls' = <<>> /\ exec' = <<>>
                /\ result' = <<>> /\ err' = "webhook URL must be HTTPS"
           ELSE /\ calls' = <<[method |-> "PATCH",
                               path |-> "/webhooks/" \o webhookID,
                               body |-> <<req>>]>>
                /\ exec' = <<e>>
                /\ IF e.err # NoError
                   THEN result' = <<>> /\ err' = e.err
                   ELSE /\ result' = <<transformWebhook(e.payload[1])>>
                        /\ err' = NoError

\* func (s *WebhooksService) Delete(ctx, webhookID)
WebhooksDelete ==
    \E webhookID \in WebhookIDs, e \in ExecNoBody :
        /\ op' = "Webhooks.Delete"
        /\ args' = [webhookID |-> webhookID]
        /\ result' = <<>>
        /\ IF webhookID = "" \/ ~HasPrefix(webhookID, "whk_")
           THEN /\ calls' = <<>> /\ exec' = <<>>
                /\ err' = "invalid webhook ID format"
           ELSE /\ calls' = <<[method |-> "DELETE",
                               path |-> "/webhooks/" \o webhookID,
                               body |-> <<>>]>>
                /\ exec' = <<e>>
                /\ err' = e.err

\* WebhookTestResult values the executor may decode (passed through as is).
TestPayloads ==
    {[success |-> b, status_code |-> 200] : b \in BOOLEAN}

\* The raw rotate-secret responses the executor may decode.
RotatePayloads ==
    {[Webhook |-> w, NewSecret |-> n, OldSecretExpiresAt |-> "t5",
      Message |-> "rotated"] :
        w \in WrittenWebhooks,
        n \in {""} \cup Secrets}

\* The event-types responses the executor may decode.
EventTypePayloads ==
    {[Events |-> es] :
        es \in SeqsUpTo({[Type |-> t] : t \in EventTypes}, MaxList)}

\* func (s *WebhooksService) Test(ctx, webhookID)
WebhooksTest ==
    \E webhookID \in WebhookIDs, e \in ExecOutcomes(TestPayloads) :
        /\ op' = "Webhooks.Test"
        /\ args' = [webhookID |-> webhookID]
        /\ IF webhookID = "" \/ ~HasPrefix(webhookID, "whk_")
           THEN /\ calls' = <<>> /\ exec' = <<>>
                /\ result' = <<>> /\ err' = "invalid webhook ID format"
           ELSE /\ calls' = <<[method |-> "POST",
                               path |-> "/webhooks/" \o webhookID \o "/test",
                               body |-> <<>>]>>
                /\ exec' = <<e>>
                /\ IF e.err # NoError
                   THEN result' = <<>> /\ err' = e.err
                   ELSE result' = <<e.payload[1]>> /\ err' = NoError

\* func (s *WebhooksService) RotateSecret(ctx, webhookID)
WebhooksRotateSecret ==
    \E webhookID \in WebhookIDs, e \in ExecOutcomes(RotatePayloads) :
        /\ op' = "Webhooks.RotateSecret"
        /\ args' = [webhookID |-> webhookID]
        /\ IF webhookID = "" \/ ~HasPrefix(webhookID, "whk_")
           THEN /\ calls' = <<>> /\ exec' = <<>>
                /\ result' = <<>> /\ err' = "invalid webhook ID format"
           ELSE /\ calls' = <<[method |-> "POST",
                               path |-> "/webhooks/" \o webhookID
                                            \o "/rotate-secret",
                               body |-> <<>>]>>
                /\ exec' = <<e>>
                /\ IF e.err # NoError
                   THEN result' = <<>> /\ err' = e.err
                   ELSE /\ result' =
                             <<[Webhook |->
                                    transformWebhook(e.payload[1].Webhook),
                                NewSecret |-> e.payload[1].NewSecret,
                                OldSecretExpiresAt |->
                                    e.payload[1].OldSecretExpiresAt,
                                Message |-> e.payload[1].Message]>>
                        /\ err' = NoError

\* func (s *WebhooksService) GetDeliveries(ctx, webhookID)
WebhooksGetDeliveries ==
    \E webhookID \in WebhookIDs,
       e \in ExecOutcomes(SeqsUpTo(DeliveryPayloads, MaxList)) :
        /\ op' = "Webhooks.GetDeliveries"
        /\ args' = [webhookID |-> webhookID]
        /\ IF webhookID = "" \/ ~HasPrefix(webhookID, "whk_")
           THEN /\ calls' = <<>> /\ exec' = <<>>
                /\ result' = <<>> /\ err' = "invalid webhook ID format"
           ELSE /\ calls' = <<[method |-> "GET",
                               path |-> "/webhooks/" \o webhookID
                                            \o "/deliveries",
                               body |-> <<>>]>>
                /\ exec' = <<e>>
                /\ IF e.err # NoError
                   THEN result' = <<>> /\ err' = e.err
                   ELSE /\ result' = <<[i \in 1..Len(e.payload[1]) |->
                                           transformDelivery(e.payload[1][i])]>>
                        /\ err' = NoError

\* func (s *WebhooksService) RetryDelivery(ctx, webhookID, deliveryID)
WebhooksRetryDelivery ==
    \E webhookID \in WebhookIDs, deliveryID \in DeliveryIDs,
       e \in ExecNoBody :
        /\ op' = "Webhooks.RetryDelivery"
        /\ args' = [webhookID |-> webhookID, deliveryID |-> deliveryID]
        /\ result' = <<>>
        /\ IF webhookID = "" \/ ~HasPrefix(webhookID, "whk_")
           THEN /\ calls' = <<>> /\ exec' = <<>>
                /\ err' = "invalid webhook ID format"
           ELSE IF deliveryID = "" \/ ~HasPrefix(deliveryID, "del_")
           THEN /\ calls' = <<>> /\ exec' = <<>>
                /\ err' = "invalid delivery ID format"
           ELSE /\ calls' = <<[method |-> "POST",
                               path |-> "/webhooks/" \o webhookID
                                            \o "/deliveries/" \o deliveryID
                                            \o "/retry",
                               body |-> <<>>]>>
                /\ exec' = <<e>>
                /\ err' = e.err

\* func (s *WebhooksService) ListEventTypes(ctx)
WebhooksListEventTypes ==
    \E e \in ExecOutcomes(EventTypePayloads) :
        /\ op' = "Webhooks.ListEventTypes"
        /\ args' = <<>>
        /\ calls' = <<[method |-> "GET", path |-> "/webhooks/event-types",
                       body |-> <<>>]>>
        /\ exec' = <<e>>
        /\ IF e.err # NoError
           THEN result' = <<>> /\ err' = e.err
           ELSE /\ result' = <<[i \in 1..Len(e.payload[1].Events) |->
                                   e.payload[1].Events[i].Type]>>
                /\ err' = NoError

\* --------------------------------------------------------- SessionsService
\* func (s *SessionsService) Create(ctx, req)
SessionsCreate ==
    \E req \in CreateSessionRequests, e \in ExecOutcomes(VerifySessions) :
        /\ op' = "Sessions.Create"
        /\ args' = [req |-> req]
        /\ calls' = <<[method |-> "POST",
                       path |-> "/verify/sessions",
                       body |-> <<EncodeCreateSessionRequest(req)>>]>>
        /\ exec' = <<e>>
        /\ IF e.err # NoError
           THEN result' = <<>> /\ err' = e.err
           ELSE result' = <<e.payload[1]>> /\ err' = NoError

\* func (s *SessionsService) Validate(ctx, req)
SessionsValidate ==
    \E req \in ValidateSessionRequests, e \in ExecOutcomes(ValidateSessionResponses) :
        /\ op' = "Sessions.Validate"
        /\ args' = [req |-> req]
        /\ calls' = <<[method |-> "POST",
                       path |-> "/verify/sessions/validate",
                       body |-> <<EncodeValidateSessionRequest(req)>>]>>
        /\ exec' = <<e>>
        /\ IF e.err # NoError
           THEN result' = <<>> /\ err' = e.err
           ELSE result' = <<e.payload[1]>> /\ err' = NoError

\* ----------------------------------------------------------- VerifyService
\* func (s *VerifyService) Send(ctx, req)
VerifySend ==
    \E req \in SendVerificationRequests, e \in ExecOutcomes(SendVerificationResponses) :
        /\ op' = "Verify.Send"
        /\ args' = [req |-> req]
        /\ calls' = <<[method |-> "POST",
                       path |-> "/verify",
                       body |-> <<EncodeSendVerificationRequest(req)>>]>>
        /\ exec' = <<e>>
        /\ IF e.err # NoError
           THEN result' = <<>> /\ err' = e.err
           ELSE result' = <<e.payload[1]>> /\ err' = NoError

\* func (s *VerifyService) Resend(ctx, id)
VerifyResend ==
    \E id \in VerificationIDs, e \in ExecOutcomes(SendVerificationResponses) :
        /\ op' = "Verify.Resend"
        /\ args' = [id |-> id]
        /\ calls' = <<[method |-> "POST",
                       path |-> "/verify/" \o id \o "/resend",
                       body |-> <<>>]>>
        /\ exec' = <<e>>
        /\ IF e.err # NoError
           THEN result' = <<>> /\ err' = e.err
           ELSE result' = <<e.payload[1]>> /\ err' = NoError

\* func (s *VerifyService) Check(ctx, id, req)
VerifyCheck ==
    \E id \in VerificationIDs, req \in CheckVerificationRequests,
       e \in ExecOutcomes(CheckVerificationResponses) :
        /\ op' = "Verify.Check"
        /\ args' = [id |-> id, req |-> req]
        /\ calls' = <<[method |-> "POST",
                       path |-> "/verify/" \o id \o "/check",
                       body |-> <<EncodeCheckVerificationRequest(req)>>]>>
        /\ exec' = <<e>>
        /\ IF e.err # NoError
           THEN result' = <<>> /\ err' = e.err
           ELSE result' = <<e.payload[1]>> /\ err' = NoError

\* func (s *VerifyService) Get(ctx, id)
VerifyGet ==
    \E id \in VerificationIDs, e \in ExecOutcomes(Verifications) :
        /\ op' = "Verify.Get"
        /\ args' = [id |-> id]
        /\ calls' = <<[method |-> "GET",
                       path |-> "/verify/" \o id,
                       body |-> <<>>]>>
        /\ exec' = <<e>>
        /\ IF e.err # NoError
           THEN result' = <<>> /\ err' = e.err
           ELSE result' = <<e.payload[1]>> /\ err' = NoError

\* List's path without the len(params) > 0 test: "?" is always appended
\* when opts is not nil.
ListPath_AlwaysQuery(opts) ==
    IF opts # <<>>
    THEN LET limitSet == IF opts[1].Limit > 0 THEN {"limit"} ELSE {}
             statusSet == IF opts[1].Status # "" THEN {"status"} ELSE {}
             params == [k \in limitSet \cup statusSet |->
                           IF k = "limit" THEN Itoa(opts[1].Limit)
                           ELSE opts[1].Status]
         IN  "/verify" \o "?" \o ValuesEncode(params)
    ELSE "/verify"

\* The path List requests for opts (nil is <<>>).
ListPath(opts) ==
    IF opts # <<>>
    THEN LET limitSet == IF opts[1].Limit > 0 THEN {"limit"} ELSE {}
             statusSet == IF opts[1].Status # "" THEN {"status"} ELSE {}
             params == [k \in limitSet \cup statusSet |->
                           IF k = "limit" THEN Itoa(opts[1].Limit)
                           ELSE opts[1].Status]
         IN  IF Cardinality(DOMAIN params) > 0
             THEN "/verify" \o "?" \o ValuesEncode(params)
             ELSE "/verify"
    ELSE "/verify"

\* func (s *VerifyService) List(ctx, opts)
VerifyList ==
    \E opts \in VerificationListOptionsSet, e \in ExecOutcomes(VerificationListResponses) :
        /\ op' = "Verify.List"
        /\ args' = [opts |-> opts]
        /\ calls' = <<[method |-> "GET",
                       path |-> ListPath(opts),
                       body |-> <<>>]>>
        /\ exec' = <<e>>
        /\ IF e.err # NoError
           THEN result' = <<>> /\ err' = e.err
           ELSE result' = <<e.payload[1]>> /\ err' = NoError

\* -------------------------------------------------------- TemplatesService
\* CreateTemplateRequest
EncodeCreateTemplateRequest(req) == [name |-> req.Name, text |-> req.Text]

\* UpdateTemplateRequest: both fields are strings tagged omitempty.
EncodeUpdateTemplateRequest(req) ==
    LET keys == (IF req.Name # "" THEN {"name"} ELSE {})
            \cup (IF req.Text # "" THEN {"text"} ELSE {})
    IN  [k \in keys |-> IF k = "name" THEN req.Name ELSE req.Text]

TemplateIDs == {"", "tpl_1"}

\* Values a caller may give a template name or text.
TemplateStrings == {"", "Hi {{name}}"}

CreateTemplateRequests == [Name : TemplateStrings, Text : TemplateStrings]

\* What a caller of Update wants changed: per field, <<>> (leave it alone)
\* or <<v>> (set it to v).
TemplateChanges ==
    [Name : {<<>>} \cup {<<v>> : v \in TemplateStrings},
     Text : {<<>>} \cup {<<v>> : v \in TemplateStrings}]

\* The UpdateTemplateRequest a caller builds for a change: a field that is
\* not set in the struct literal holds the zero value of its type, string.
UpdateTemplateRequestOf(change) ==
    [Name |-> IF change.Name = <<>> THEN "" ELSE change.Name[1],
     Text |-> IF change.Text = <<>> THEN "" ELSE change.Text[1]]

\* The variables argument of Preview: nil, the empty map, a map.
PreviewVariables == {<<>>, <<<<>>>>, <<[name |-> "Ann"]>>}

TemplateVariables == {[Key |-> "name", Type |-> "string", Fallback |-> ""]}

Templates ==
    [ID : {"tpl_1"}, Name : {"welcome"}, Text : {"Hi {{name}}"},
     Variables : {<<>>} \cup {<<<<v>>>> : v \in TemplateVariables},
     IsPreset : {FALSE}, PresetSlug : {""}, Status : {"draft", "published"},
     Version : {1}, PublishedAt : {""}, CreatedAt : {"t0"},
     UpdatedAt : {"t2"}]

TemplateListResponses ==
    [Templates : {<<>>, <<<<>>>>} \cup {<<<<t>>>> : t \in Templates}]

TemplatePreviews ==
    [ID : {"tpl_1"}, Name : {"welcome"}, OriginalText : {"Hi {{name}}"},
     PreviewText : {"Hi Ann", "Hi "},
     Variables : {<<<<v>>>> : v \in TemplateVariables}]

\* func (s *TemplatesService) List(ctx)
TemplatesList ==
    \E e \in ExecOutcomes(TemplateListResponses) :
        /\ op' = "Templates.List"
        /\ args' = <<>>
        /\ calls' = <<[method |-> "GET",
                       path |-> "/templates",
                       body |-> <<>>]>>
        /\ exec' = <<e>>
        /\ IF e.err # NoError
           THEN result' = <<>> /\ err' = e.err
           ELSE result' = <<e.payload[1]>> /\ err' = NoError

\* func (s *TemplatesService) Presets(ctx)
TemplatesPresets ==
    \E e \in ExecOutcomes(TemplateListResponses) :
        /\ op' = "Templates.Presets"
        /\ args' = <<>>
        /\ calls' = <<[method |-> "GET",
                       path |-> "/templates/presets",
                       body |-> <<>>]>>
        /\ exec' = <<e>>
        /\ IF e.err # NoError
           THEN result' = <<>> /\ err' = e.err
           ELSE result' = <<e.payload[1]>> /\ err' = NoError

\* func (s *TemplatesService) Get(ctx, id)
TemplatesGet ==
    \E id \in TemplateIDs, e \in ExecOutcomes(Templates) :
        /\ op' = "Templates.Get"
        /\ args' = [id |-> id]
        /\ calls' = <<[method |-> "GET",
                       path |-> "/templates/" \o id,
                       body |-> <<>>]>>
        /\ exec' = <<e>>
        /\ IF e.err # NoError
           THEN result' = <<>> /\ err' = e.err
           ELSE result' = <<e.payload[1]>> /\ err' = NoError

\* func (s *TemplatesService) Create(ctx, req)
TemplatesCreate ==
    \E req \in CreateTemplateRequests, e \in ExecOutcomes(Templates) :
        /\ op' = "Templates.Create"
        /\ args' = [req |-> req]
        /\ calls' = <<[method |-> "POST",
                       path |-> "/templates",
                       body |-> <<EncodeCreateTemplateRequest(req)>>]>>
        /\ exec' = <<e>>
        /\ IF e.err # NoError
           THEN result' = <<>> /\ err' = e.err
           ELSE result' = <<e.payload[1]>> /\ err' = NoError

\* func (s *TemplatesService) Update(ctx, id, req)
TemplatesUpdate ==
    \E id \in TemplateIDs, change \in TemplateChanges,
       e \in ExecOutcomes(Templates) :
        /\ op' = "Templates.Update"
        /\ args' = [id |-> id, change |-> change,
                    req |-> UpdateTemplateRequestOf(change)]
        /\ calls' = <<[method |-> "PATCH",
                       path |-> "/templates/" \o id,
                       body |-> <<EncodeUpdateTemplateRequest(
                                    UpdateTemplateRequestOf(change))>>]>>
        /\ exec' = <<e>>
        /\ IF e.err # NoError
           THEN result' = <<>> /\ err' = e.err
           ELSE result' = <<e.payload[1]>> /\ err' = NoError

\* func (s *TemplatesService) Publish(ctx, id)
TemplatesPublish ==
    \E id \in TemplateIDs, e \in ExecOutcomes(Templates) :
        /\ op' = "Templates.Publish"
        /\ args' = [id |-> id]
        /\ calls' = <<[method |-> "POST",
                       path |-> "/templates/" \o id \o "/publish",
                       body |-> <<>>]>>
        /\ exec' = <<e>>
        /\ IF e.err # NoError
           THEN result' = <<>> /\ err' = e.err
           ELSE result' = <<e.payload[1]>> /\ err' = NoError

\* Preview's body with len(variables) > 0 in place of variables != nil.
PreviewBody_LenCheck(variables) ==
    [k \in (IF variables # <<>> /\ DOMAIN variables[1] # {}
            THEN {"variables"} ELSE {}) |-> variables[1]]

\* The body Preview builds: a map holding "variables" when variables is
\* not nil.
PreviewBody(variables) ==
    [k \in (IF variables # <<>> THEN {"variables"} ELSE {}) |-> variables[1]]

\* func (s *TemplatesService) Preview(ctx, id, variables)
TemplatesPreview ==
    \E id \in TemplateIDs, variables \in PreviewVariables,
       e \in ExecOutcomes(TemplatePreviews) :
        /\ op' = "Templates.Preview"
        /\ args' = [id |-> id, variables |-> variables]
        /\ calls' = <<[method |-> "POST",
                       path |-> "/templates/" \o id \o "/preview",
                       body |-> <<PreviewBody(variables)>>]>>
        /\ exec' = <<e>>
        /\ IF e.err # NoError
           THEN result' = <<>> /\ err' = e.err
           ELSE result' = <<e.payload[1]>> /\ err' = NoError

\* func (s *TemplatesService) Delete(ctx, id)
TemplatesDelete ==
    \E id \in TemplateIDs, e \in ExecNoBody :
        /\ op' = "Templates.Delete"
        /\ args' = [id |-> id]
        /\ calls' = <<[method |-> "DELETE",
                       path |-> "/templates/" \o id,
                       body |-> <<>>]>>
        /\ exec' = <<e>>
        /\ result' = <<>>
        /\ err' = e.err

Next ==
    \/ WebhooksCreate
    \/ WebhooksList
    \/ WebhooksGet
    \/ WebhooksUpdate
    \/ WebhooksDelete
    \/ WebhooksTest
    \/ WebhooksRotateSecret
    \/ WebhooksGetDeliveries
    \/ WebhooksRetryDelivery
    \/ WebhooksListEventTypes
    \/ SessionsCreate
    \/ SessionsValidate
    \/ VerifySend
    \/ VerifyResend
    \/ VerifyCheck
    \/ VerifyGet
    \/ VerifyList
    \/ TemplatesList
    \/ TemplatesPresets
    \/ TemplatesGet
    \/ TemplatesCreate
    \/ TemplatesUpdate
    \/ TemplatesPublish
    \/ TemplatesPreview
    \/ TemplatesDelete

Spec == Init /\ [][Next]_vars

\* ===================================================================
\* Properties
\* ===================================================================
\* s starts with prefix, stated on the characters of s.
StartsWith(s, prefix) ==
    /\ Len(s) >= Len(prefix)
    /\ \A i \in 1..Len(prefix) : SubSeq(s, i, i) = SubSeq(prefix, i, i)

\* The errors the facades raise themselves, before any executor call.
ValidationErrors ==
    {"webhook URL must be HTTPS", "at least one event type is required",
     "invalid webhook ID format", "invalid delivery ID format"}

\* The call failed local validation: a validation error, no result and
\* no executor invocation.
FailedValidation ==
    /\ err \in ValidationErrors
    /\ result = <<>>
    /\ calls = <<>>
    /\ exec = <<>>

\* C1: WebhooksService.Create returns a validation error and no result,
\* without invoking the executor, for every request whose url does not
\* start with "https://" (the empty url included) and for every request
\* whose events list is empty; the executor is reached only by a request
\* with an https:// url and a non-empty events list, and then exactly once.
C1_CreateValidatesBeforeRequest ==
    op = "Webhooks.Create" =>
        LET valid == /\ StartsWith(args.req.URL, "https://")
                     /\ Len(args.req.Events) > 0
        IN  /\ ~valid => FailedValidation
            /\ valid => /\ Len(calls) = 1
                        /\ calls[1].method = "POST"
                        /\ calls[1].path = "/webhooks"
                        /\ err \notin ValidationErrors

\* C1 witness: a request with an https:// url and no events was refused
\* without an executor call.
C1_Witness ==
    /\ op = "Webhooks.Create"
    /\ args.req.URL = "https://a.io"
    /\ args.req.Events = <<>>
    /\ err = "at least one event type is required"
    /\ result = <<>>
    /\ calls = <<>>

\* The operations that take a webhook id.
WebhookIDOps ==
    {"Webhooks.Get", "Webhooks.Update", "Webhooks.Delete", "Webhooks.Test",
     "Webhooks.RotateSecret", "Webhooks.GetDeliveries",
     "Webhooks.RetryDelivery"}

\* C2: every operation that takes a webhook id fails with a validation
\* error, before any executor call, for an id not prefixed "whk_" (the
\* empty id included); RetryDelivery does so too for a delivery id not
\* prefixed "del_".
C2_IDPrefixValidated ==
    /\ (op \in WebhookIDOps /\ ~StartsWith(args.webhookID, "whk_"))
           => (FailedValidation /\ err = "invalid webhook ID format")
    /\ (op = "Webhooks.RetryDelivery" /\ ~StartsWith(args.deliveryID, "del_"))
           => FailedValidation
    /\ (op = "Webhooks.RetryDelivery" /\ StartsWith(args.webhookID, "whk_")
            /\ ~StartsWith(args.deliveryID, "del_"))
           => err = "invalid delivery ID format"

\* C2 witness: RetryDelivery refused a webhook id passed as the delivery id.
C2_Witness ==
    /\ op = "Webhooks.RetryDelivery"
    /\ args.webhookID = "whk_1"
    /\ args.deliveryID = "whk_1"
    /\ err = "invalid delivery ID format"
    /\ calls = <<>>

\* C3: WebhooksService.Update with a valid whk_ id: a supplied url that
\* does not start with "https://" fails validation with no executor call;
\* with no url supplied the URL check is skipped and exactly one
\* PATCH /webhooks/{id} is issued.
C3_UpdateURLCheck ==
    (op = "Webhooks.Update" /\ StartsWith(args.webhookID, "whk_")) =>
        /\ (args.req.URL # <<>> /\ ~StartsWith(args.req.URL[1], "https://"))
               => (FailedValidation /\ err = "webhook URL must be HTTPS")
        /\ args.req.URL = <<>>
               => /\ Len(calls) = 1
                  /\ calls[1].method = "PATCH"
                  /\ calls[1].path = "/webhooks/" \o args.webhookID
                  /\ err \notin ValidationErrors

\* C3 witness: an Update without a url issued its PATCH.
C3_Witness ==
    /\ op = "Webhooks.Update"
    /\ args.webhookID = "whk_1"
    /\ args.req.URL = <<>>
    /\ calls = <<[method |-> "PATCH", path |-> "/webhooks/whk_1",
                  body |-> <<args.req>>]>>
    /\ err = NoError
    /\ result # <<>>

\* The operations that return only an error.
ErrorOnlyOps ==
    {"Webhooks.Delete", "Webhooks.RetryDelivery", "Templates.Delete"}

\* C4: every operation fully succeeds or fully fails.  It invokes the
\* executor at most once; when the executor returned an error the
\* operation returns exactly that error and no result; when the executor
\* succeeded the operation returns no error and, unless it returns only
\* an error, a non-nil result; no operation returns a result and an error.
C4_AllOrNothing ==
    /\ Len(calls) <= 1
    /\ Len(exec) = Len(calls)
    /\ ~(result # <<>> /\ err # NoError)
    /\ exec = <<>> => (op = "none" \/ (err # NoError /\ result = <<>>))
    /\ (exec # <<>> /\ exec[1].err # NoError)
           => (err = exec[1].err /\ result = <<>>)
    /\ (exec # <<>> /\ exec[1].err = NoError)
           => /\ err = NoError
              /\ op \notin ErrorOnlyOps => result # <<>>
              /\ op \in ErrorOnlyOps => result = <<>>

\* C4 witness: the executor failed under Get and Get returned its error
\* and no webhook.
C4_Witness ==
    /\ op = "Webhooks.Get"
    /\ exec # <<>>
    /\ exec[1].err = "http 404: not found"
    /\ err = "http 404: not found"
    /\ result = <<>>

\* C5: whenever RotateSecret succeeds, NewSecret of the returned
\* WebhookSecretRotation is non-empty and the returned Webhook carries no
\* secret (so never the previous one).
C5_RotateSecretNewSecret ==
    (op = "Webhooks.RotateSecret" /\ err = NoError) =>
        /\ result # <<>>
        /\ result[1].NewSecret # ""
        /\ "Secret" \notin DOMAIN result[1].Webhook

\* C6: SessionsService.Create with a missing (empty) SuccessURL fails with
\* a local validation error before any executor call.
C6_SessionRequiresSuccessURL ==
    (op = "Sessions.Create" /\ args.req.SuccessURL = "") =>
        /\ calls = <<>>
        /\ exec = <<>>
        /\ result = <<>>
        /\ err \notin ExecErrors \cup {NoError}

\* C7: whenever the response SessionsService.Validate returns has
\* Valid = FALSE, its SessionID, Phone, VerifiedAt and Metadata are unset,
\* whatever the server payload held.
C7_InvalidTokenLeaksNothing ==
    (op = "Sessions.Validate" /\ result # <<>> /\ ~result[1].Valid) =>
        /\ result[1].SessionID = ""
        /\ result[1].Phone = ""
        /\ result[1].VerifiedAt = ""
        /\ result[1].Metadata = <<>>

\* C8: the body TemplatesService.Update sends holds exactly the fields the
\* caller supplied, with their values: a supplied value, the empty string
\* included, is never treated as absent.
C8_UpdateSendsSuppliedFields ==
    op = "Templates.Update" =>
        LET body == calls[1].body[1]
        IN  /\ ("name" \in DOMAIN body) <=> (args.change.Name # <<>>)
            /\ ("text" \in DOMAIN body) <=> (args.change.Text # <<>>)
            /\ "name" \in DOMAIN body => body["name"] = args.change.Name[1]
            /\ "text" \in DOMAIN body => body["text"] = args.change.Text[1]

\* The query-string form of each status of ListStatuses.
StatusInQuery(st) ==
    CASE st = "pending" -> "pending"
      [] st = "a b" -> "a+b"
      [] st = "x&y=z" -> "x%26y%3Dz"

\* C9: VerifyService.List issues one GET whose path is /verify with no
\* query string (no "?") when opts is nil or sets neither option;
\* ?limit=<n> for a positive Limit alone; ?status=<s> for a non-empty
\* Status alone (s in its query-string form); ?limit=<n>&status=<s> for
\* both: a parameter is in the query if and only if its option is set.
C9_ListQueryFromOptions ==
    op = "Verify.List" =>
        LET o == args.opts
            limitSet == o # <<>> /\ o[1].Limit > 0
            statusSet == o # <<>> /\ o[1].Status # ""
            limitParam == "limit=" \o ToString(o[1].Limit)
            statusParam == "status=" \o StatusInQuery(o[1].Status)
        IN  /\ Len(calls) = 1
            /\ calls[1].method = "GET"
            /\ calls[1].body = <<>>
            /\ calls[1].path =
                   CASE ~limitSet /\ ~statusSet -> "/verify"
                     [] limitSet /\ ~statusSet -> "/verify?" \o limitParam
                     [] ~limitSet /\ statusSet -> "/verify?" \o statusParam
                     [] limitSet /\ statusSet ->
                            "/verify?" \o limitParam \o "&" \o statusParam

\* C9 witness: List with both options set requested both parameters.
C9_Witness ==
    /\ op = "Verify.List"
    /\ args.opts = <<[Limit |-> 2, Status |-> "pending"]>>
    /\ calls[1].path = "/verify?limit=2&status=pending"

\* C10: the body of TemplatesService.Preview has no "variables" key when
\* variables is nil; when variables is not nil, empty or not, the body maps
\* "variables" to that mapping unchanged.
C10_PreviewKeepsNilEmpty ==
    op = "Templates.Preview" =>
        /\ Len(calls) = 1
        /\ calls[1].body # <<>>
        /\ LET body == calls[1].body[1]
           IN  /\ args.variables = <<>> => DOMAIN body = {}
               /\ args.variables # <<>>
                      => /\ DOMAIN body = {"variables"}
                         /\ body["variables"] = args.variables[1]

\* C10 witness: Preview with the empty mapping sent "variables" mapped to
\* an empty mapping.
C10_Witness ==
    /\ op = "Templates.Preview"
    /\ args.variables = <<<<>>>>
    /\ "variables" \in DOMAIN calls[1].body[1]
    /\ DOMAIN calls[1].body[1]["variables"] = {}

\* w is the Webhook the mode rule gives for the wire payload api: Mode is
\* "all" for an empty wire mode and the wire mode otherwise, the secret is
\* left out, and every other field holds the payload's value.
IsWebhookOf(w, api) ==
    /\ DOMAIN w = DOMAIN api \ {"Secret"}
    /\ api.Mode = "" => w.Mode = "all"
    /\ api.Mode # "" => w.Mode = api.Mode
    /\ \A f \in DOMAIN w \ {"Mode"} : w[f] = api[f]

\* C11: the Webhook that Get, Update, Create and RotateSecret return is
\* transformWebhook's image of the decoded payload: Mode "all" when the
\* payload's mode is empty, the payload's mode unchanged otherwise, and
\* every other field but the secret copied unchanged.
C11_TransformModeRule ==
    /\ (op \in {"Webhooks.Get", "Webhooks.Update"} /\ result # <<>>)
           => IsWebhookOf(result[1], exec[1].payload[1])
    /\ (op = "Webhooks.Create" /\ result # <<>>)
           => IsWebhookOf(result[1].Webhook, exec[1].payload[1])
    /\ (op = "Webhooks.RotateSecret" /\ result # <<>>)
           => IsWebhookOf(result[1].Webhook, exec[1].payload[1].Webhook)

\* C11 witness: Get decoded a payload without a mode and returned a
\* Webhook of mode "all" with the payload's description.
C11_Witness ==
    /\ op = "Webhooks.Get"
    /\ result # <<>>
    /\ exec[1].payload[1].Mode = ""
    /\ exec[1].payload[1].Description = <<"prod">>
    /\ result[1].Mode = "all"
    /\ result[1].Description = <<"prod">>

\* d is the WebhookDelivery holding every field of the wire payload api.
IsDeliveryOf(d, api) ==
    /\ DOMAIN d = DOMAIN api
    /\ \A f \in DOMAIN d : d[f] = api[f]

\* C12: the lists List, GetDeliveries and ListEventTypes return keep the
\* server's sequence: the same length as the server's list, and at each
\* index the transform of the server's element at that index (its type
\* string for ListEventTypes); nothing is re-sorted, filtered or
\* de-duplicated.
C12_ListsKeepServerOrder ==
    /\ (op = "Webhooks.List" /\ err = NoError /\ exec # <<>>)
           => /\ result # <<>>
              /\ Len(result[1]) = Len(exec[1].payload[1])
              /\ \A i \in 1..Len(exec[1].payload[1]) :
                     IsWebhookOf(result[1][i], exec[1].payload[1][i])
    /\ (op = "Webhooks.GetDeliveries" /\ err = NoError /\ exec # <<>>)
           => /\ result # <<>>
              /\ Len(result[1]) = Len(exec[1].payload[1])
              /\ \A i \in 1..Len(exec[1].payload[1]) :
                     IsDeliveryOf(result[1][i], exec[1].payload[1][i])
    /\ (op = "Webhooks.ListEventTypes" /\ err = NoError /\ exec # <<>>)
           => /\ result # <<>>
              /\ Len(result[1]) = Len(exec[1].payload[1].Events)
              /\ \A i \in 1..Len(exec[1].payload[1].Events) :
                     result[1][i] = exec[1].payload[1].Events[i].Type

\* C12 witness: the server listed a "selected" webhook before one without
\* a mode, and List returned them in that order.
C12_Witness ==
    /\ op = "Webhooks.List"
    /\ err = NoError
    /\ Len(exec[1].payload[1]) = 2
    /\ exec[1].payload[1][1].Mode = "selected"
    /\ exec[1].payload[1][2].Mode = ""
    /\ Len(result[1]) = 2
    /\ result[1][1].Mode = "selected"
    /\ result[1][2].Mode = "all"

=============================================================================
